---- MODULE Spec2Model ----
(***************************************************************************)
(* A model of mos-moss: src/mos_moss.py (the current script) and           *)
(* src/run_moss.py (its earlier version).                                  *)
(*                                                                         *)
(*   SpecNames    unzip_canvas_submission: the folder each member of the   *)
(*                bulk archive is extracted into (both scripts).           *)
(*   SpecExtract  one member of the bulk archive: extractall, then         *)
(*                cleanup_files, then flatten_folder.                      *)
(*   SpecSelect   list_files and stage_moss_files over folders holding     *)
(*                files of every kind (both scripts).                      *)
(*   SpecStage    stage_moss_files of mos_moss.py: sampling of submission  *)
(*                folders, base files and solutions.                       *)
(*   Spec         the run of mos_moss.py: unzip, then for each batch       *)
(*                stage_moss_files and send_to_moss.                       *)
(***************************************************************************)
EXTENDS Integers, Sequences, FiniteSets, TLC

\* ------------------------------------------------------------------ bounds
\* Members of the bulk archive processed by one run of the unzip loop.
MaxMembers == 2
\* Entries of one student's archive.
MaxEntries == 3
\* Nesting of the entries of a student's archive.
MaxDepth == 3
\* Files and folders placed under zip_output for file selection.
MaxFiles == 2
\* Visible submission folders under zip_output for sampling.
MaxFolders == 2
\* Largest --repeat.
MaxRepeat == 3

\* ------------------------------------------------------------------- state
VARIABLES
    script,         \* which script runs: "mos_moss" or "run_moss"
    original_name,  \* the original_name argument / --original-name
    extracted,      \* unzip loop: the [member, folder] pairs extracted so far
    pc_unzip,       \* unzip loop: "loop", "done" or the uncaught error
    student_zip,    \* one member: the entries of the student's archive
    cleaned,        \* one member: the folder as cleanup_files left it
    fs,             \* one member: the folder as flatten_folder left it
    pc_ext,         \* one member: "archive", "done" or the uncaught error
    disk,           \* staging: the files and folders on disk
    language,       \* staging: the language argument
    max_submissions,\* staging: the max_submissions argument
    base_files,     \* staging: the base_files argument (a path or None)
    solutions,      \* staging: the solutions argument (a path or None)
    submission_folders, \* staging: the batch of submission folders
    moss,           \* staging: the client object, files added so far
    pc_stage,       \* staging: "call", "returned" or the uncaught error
    pc,             \* run: where __main__ is, "exit", or "aborted"
    n_batch,        \* run: n, the batch number of the loop of __main__
    repeat,         \* run: --repeat
    no_report,      \* run: --no-report
    user_id,        \* run: the user_id argument of send_to_moss
    env_user_id,    \* run: the environment variable user_id
    log,            \* run: what was done and written, in order
    failed          \* run: the batch an uncaught error ended (0: extraction), or -1

varsNames == <<script, original_name, extracted, pc_unzip>>
varsExtract == <<student_zip, cleaned, fs, pc_ext>>
varsStage == <<disk, language, max_submissions, base_files, solutions,
               submission_folders, moss, pc_stage>>
varsMain == <<pc, n_batch, repeat, no_report, user_id, env_user_id, log, failed>>
vars == <<script, original_name, extracted, pc_unzip, student_zip, cleaned, fs, pc_ext,
          disk, language, max_submissions, base_files, solutions,
          submission_folders, moss, pc_stage,
          pc, n_batch, repeat, no_report, user_id, env_user_id, log, failed>>

\* Python's None (no sequence of characters equals it).
None == <<"None">>

\* The client object mosspy.Moss(...) as constructed: nothing added yet.
NewMoss ==
    [user_id |-> None, files |-> {}, base_files |-> {}, comment |-> {}, directory_mode |-> 0]

\* The staging variables while another part of the program is looked at.
StageIdle ==
    /\ disk = {} /\ language = "" /\ max_submissions = 0
    /\ base_files = None /\ solutions = None
    /\ submission_folders = <<>> /\ moss = NewMoss /\ pc_stage = "idle"

\* The run variables while another part of the program is looked at.
MainIdle ==
    /\ pc = "idle" /\ n_batch = 0 /\ repeat = 0 /\ no_report = FALSE
    /\ user_id = None /\ env_user_id = None /\ log = <<>> /\ failed = -1

\* ------------------------------------------------------- member file names
\* A file name is a sequence of characters; one character per class the
\* regular expression tells apart: a letter, a digit, "_" and ".".
IsWord(c) == c \in {"a", "1", "_"}
IsDigit(c) == c = "1"

AllWord(s, i, j) == \A k \in i..j : IsWord(s[k])
AllDigit(s, i, j) == \A k \in i..j : IsDigit(s[k])

Max(S) == CHOOSE x \in S : \A y \in S : y <= x

\* The splits of s by (\w+_\w*_\d+\d+): a the end of \w+, b the end of \w*,
\* d the end of \d+\d+ (two digits at least).
PrefixSplits(s) ==
    LET n == Len(s)
    IN  UNION { UNION { { <<a, b, d>> : d \in { x \in (b + 3)..n : AllDigit(s, b + 2, x) } }
                        : b \in { y \in (a + 1)..(n - 1) : AllWord(s, a + 2, y) /\ s[y + 1] = "_" } }
                : a \in { z \in 1..(n - 1) : AllWord(s, 1, z) /\ s[z + 1] = "_" } }

\* re.match(r"(\w+_\w*_\d+\d+)_(.+)\.", s): None, or the groups 1 and 2.
\* Every quantifier is greedy, so the match is the one with the longest \w+,
\* then the longest \w*, then the longest digits, then the longest (.+).
re_match_new(s) ==
    LET n == Len(s)
        Ends(d) == { e \in (d + 2)..(n - 1) : s[e + 1] = "." }
        full == { t \in PrefixSplits(s) : t[3] < n /\ s[t[3] + 1] = "_" /\ Ends(t[3]) # {} }
    IN  IF full = {} THEN None
        ELSE LET a == Max({ t[1] : t \in full })
                 b == Max({ t[2] : t \in { u \in full : u[1] = a } })
                 d == Max({ t[3] : t \in { u \in full : u[1] = a /\ u[2] = b } })
                 e == Max(Ends(d))
             IN  <<SubSeq(s, 1, d), SubSeq(s, d + 2, e)>>

\* re.match(r"(\w+_\w*_\d+\d+)", s): None, or group 0.
re_match_old(s) ==
    LET pre == PrefixSplits(s)
    IN  IF pre = {} THEN None
        ELSE LET a == Max({ t[1] : t \in pre })
                 b == Max({ t[2] : t \in { u \in pre : u[1] = a } })
                 d == Max({ t[3] : t \in { u \in pre : u[1] = a /\ u[2] = b } })
             IN  SubSeq(s, 1, d)

\* The member names of the bulk archive: [student]_[late]_[ids]_[original]
\* with or without an extension, and with ids too short to match.
Students == { <<"a">>, <<"1">> }
Lates == { <<>>, <<"a">> }
Ids == { <<"1">>, <<"1", "1">> }
Originals == { <<"a">>, <<"a", ".", "a">> }
Extensions == { <<>>, <<".">>, <<".", "a">> }

MemberNames ==
    { st \o <<"_">> \o la \o <<"_">> \o id \o <<"_">> \o org \o ex :
        st \in Students, la \in Lates, id \in Ids, org \in Originals, ex \in Extensions }

\* ------------------------------------------------ unzip_canvas_submission
\* mos_moss.py: res[2] if original_name else res[1]; res[...] of None raises
\* TypeError, which is caught, and the folder is the raw member name.
folder_name_except_none(filename) == <<"N", "o", "n", "e">>

folder_name_except(filename) == filename

folder_name(filename, orig) ==
    LET res == re_match_new(filename)
    IN  IF res = None THEN folder_name_except(filename)
        ELSE IF orig THEN res[2] ELSE res[1]

\* run_moss.py: None when original_name is set or the name does not match.
folder_name_old(filename, orig) ==
    IF orig THEN None ELSE re_match_old(filename)

\* One iteration of the loop over zf.infolist(), mos_moss.py.
unzip_member ==
    /\ script = "mos_moss"
    /\ pc_unzip = "loop"
    /\ Cardinality(extracted) < MaxMembers
    /\ \E submission \in MemberNames \ { x.member : x \in extracted } :
         extracted' = extracted \cup
             { [member |-> submission, folder |-> folder_name(submission, original_name)] }
    /\ UNCHANGED <<script, original_name, pc_unzip>>
    /\ UNCHANGED <<varsExtract, varsStage, varsMain>>

\* One iteration of the loop over zf.filelist, run_moss.py:
\* os.path.join(zip_output, None) raises TypeError, which nothing catches.
unzip_member_old ==
    /\ script = "run_moss"
    /\ pc_unzip = "loop"
    /\ Cardinality(extracted) < MaxMembers
    /\ \E submission \in MemberNames \ { x.member : x \in extracted } :
         LET f == folder_name_old(submission, original_name)
         IN  IF f = None
             THEN /\ pc_unzip' = "TypeError"
                  /\ UNCHANGED extracted
             ELSE /\ extracted' = extracted \cup { [member |-> submission, folder |-> f] }
                  /\ UNCHANGED pc_unzip
    /\ UNCHANGED <<script, original_name>>
    /\ UNCHANGED <<varsExtract, varsStage, varsMain>>

\* The archive has no more members.
unzip_done ==
    /\ pc_unzip = "loop"
    /\ pc_unzip' = "done"
    /\ UNCHANGED <<script, original_name, extracted>>
    /\ UNCHANGED <<varsExtract, varsStage, varsMain>>

InitNames ==
    /\ script \in {"mos_moss", "run_moss"}
    /\ original_name \in BOOLEAN
    /\ extracted = {}
    /\ pc_unzip = "loop"
    /\ student_zip = {} /\ cleaned = {} /\ fs = {} /\ pc_ext = "idle"
    /\ StageIdle /\ MainIdle

NextNames == unzip_member \/ unzip_member_old \/ unzip_done

SpecNames == InitNames /\ [][NextNames]_vars

\* ------------------------------------------------------------ file system
\* A file or folder name is a sequence of pieces ("Main", ".", "java"); a
\* path is a sequence of names; a tree is a set of nodes closed under parents.
MACOSX == <<"__MACOSX">>

IsHidden(name) == name[1] = "."
Last(p) == p[Len(p)]
Parent(p) == SubSeq(p, 1, Len(p) - 1)
IsUnder(p, root) == Len(p) > Len(root) /\ SubSeq(p, 1, Len(root)) = root
EndsWith(name, suffix) ==
    /\ Len(name) >= Len(suffix)
    /\ SubSeq(name, Len(name) - Len(suffix) + 1, Len(name)) = suffix

Children(tree, p) == { n \in tree : Len(n.path) = Len(p) + 1 /\ IsUnder(n.path, p) }
Subtree(tree, p) == { n \in tree : n.path = p \/ IsUnder(n.path, p) }

\* The folders glob's "**" walks from root: root itself and, recursively,
\* the folders below it whose names do not start with a dot.
Walked(tree, root) ==
    { root } \cup
    { n.path : n \in { m \in tree :
        /\ m.dir
        /\ IsUnder(m.path, root)
        /\ \A k \in (Len(root) + 1)..Len(m.path) : ~IsHidden(m.path[k]) } }

\* glob.glob(f"{root}/**/{name}", recursive=True) for a name without wildcards.
glob_literal(tree, root, name) ==
    { n \in tree : Last(n.path) = name /\ Parent(n.path) \in Walked(tree, root) }

\* The orders in which a loop can visit S (os.scandir's order is unspecified).
Orders(S) ==
    { f \in [1..Cardinality(S) -> S] : \A i, j \in 1..Cardinality(S) : f[i] = f[j] => i = j }

\* -------------------------------------------------------------- cleanup_files
\* shutil.rmtree(f) for each f of the list, one after the other: a path that
\* is gone raises FileNotFoundError, a regular file NotADirectoryError.
RECURSIVE rmtree_all(_, _)
rmtree_all(tree, todo) ==
    IF todo = <<>> THEN [tree |-> tree, err |-> "ok"]
    ELSE LET f == Head(todo)
         IN  IF f \notin tree THEN [tree |-> tree, err |-> "FileNotFoundError"]
             ELSE IF ~f.dir THEN [tree |-> tree, err |-> "NotADirectoryError"]
             ELSE rmtree_all(tree \ Subtree(tree, f.path), Tail(todo))

\* The lists glob can return: a folder comes before what is below it.
glob_orders(found) ==
    { o \in Orders(found) :
        \A i, j \in 1..Cardinality(found) : IsUnder(o[j].path, o[i].path) => i < j }

\* -------------------------------------------------------------- flatten_folder
\* shutil.move(os.path.join(folder, f), destination) for the children moved:
\* each lands one level up.
move_up(tree, moved) ==
    LET gone == UNION { Subtree(tree, c.path) : c \in moved }
    IN  (tree \ gone) \cup { [path |-> Tail(n.path), dir |-> n.dir] : n \in gone }

\* The results of flatten_folder on the folder tree.
flatten_folder(tree) ==
    LET content == Children(tree, <<>>)
    IN  IF Cardinality(content) # 1 THEN { [tree |-> tree, err |-> "ok"] }
        ELSE LET folder == CHOOSE n \in content : TRUE
                 inside == Children(tree, folder.path)
                 clash == { c \in inside : Last(c.path) = Last(folder.path) }
             IN  IF ~folder.dir
                 THEN { [tree |-> tree, err |-> "NotADirectoryError"] }
                 ELSE IF clash = {}
                 THEN { [tree |-> move_up(tree, inside) \ {folder}, err |-> "ok"] }
                 ELSE { [tree |-> move_up(tree, moved), err |-> "shutil.Error"] :
                          moved \in SUBSET (inside \ clash) }

\* ------------------------------------------------- one member of the archive
Names == { MACOSX, <<"hw">>, <<".", "git">> }

\* The student's archive gets one more entry, in a folder it already holds.
zip_entry ==
    /\ pc_ext = "archive"
    /\ Cardinality(student_zip) < MaxEntries
    /\ \E parent \in { <<>> } \cup { n.path : n \in { m \in student_zip : m.dir } },
          name \in Names, isdir \in BOOLEAN :
         /\ Len(parent) < MaxDepth
         /\ \A n \in student_zip : n.path # Append(parent, name)
         /\ student_zip' = student_zip \cup { [path |-> Append(parent, name), dir |-> isdir] }
    /\ UNCHANGED <<cleaned, fs, pc_ext>>
    /\ UNCHANGED <<varsNames, varsStage, varsMain>>

\* The body of the loop of unzip_canvas_submission for one member:
\* extractall into a new folder, cleanup_files, flatten_folder.
unzip_extract ==
    /\ pc_ext = "archive"
    /\ \E todo \in glob_orders(glob_literal(student_zip, <<>>, MACOSX)) :
         LET c == rmtree_all(student_zip, todo)
         IN  /\ cleaned' = c.tree
             /\ IF c.err # "ok"
                THEN /\ fs' = c.tree
                     /\ pc_ext' = "cleanup_files: " \o c.err
                ELSE \E r \in flatten_folder(c.tree) :
                     /\ fs' = r.tree
                     /\ pc_ext' = IF r.err = "ok" THEN "done" ELSE "flatten_folder: " \o r.err
    /\ UNCHANGED student_zip
    /\ UNCHANGED <<varsNames, varsStage, varsMain>>

InitExtract ==
    /\ student_zip = {} /\ cleaned = {} /\ fs = {} /\ pc_ext = "archive"
    /\ script = "mos_moss" /\ original_name = FALSE /\ extracted = {} /\ pc_unzip = "idle"
    /\ StageIdle /\ MainIdle

NextExtract == zip_entry \/ unzip_extract

SpecExtract == InitExtract /\ [][NextExtract]_vars

\* ------------------------------------------------------------------ list_files
\* LANGUAGE_EXTENSIONS, each extension as the pieces of a name it ends.
LANGUAGE_EXTENSIONS ==
    [java |-> { <<"java">> },
     cpp |-> { <<".", "cpp">>, <<".", "h">>, <<".", "hpp">> }]

\* str.lower() on the languages given on the command line.
lower(lang) ==
    CASE lang = "Java" -> "java"
      [] lang = "CPP" -> "cpp"
      [] OTHER -> lang

\* glob.glob(f"{folder}/**/*{ext}", recursive=True): "*" matches no leading
\* dot, and "**" walks into no folder whose name starts with a dot.
glob_ext(tree, folder, ext) ==
    { n \in tree :
        /\ Parent(n.path) \in Walked(tree, folder)
        /\ IsUnder(n.path, folder)
        /\ ~IsHidden(Last(n.path))
        /\ EndsWith(Last(n.path), ext) }

\* os.path.isfile(f) and not f.endswith("pdf") and not f.endswith("jar")
\* and os.path.getsize(f) > 0
is_source_file(f) ==
    /\ ~f.dir
    /\ ~EndsWith(Last(f.path), <<"pdf">>)
    /\ ~EndsWith(Last(f.path), <<"jar">>)
    /\ f.size > 0

\* mos_moss.py tests the one-element tuple (condition,): a tuple that is not
\* empty is true whatever it holds.
tuple_is_true(condition) == TRUE

\* mos_moss.py: LANGUAGE_EXTENSIONS.get(language.lower(), ""); the default
\* "" is a string without characters, so the loop over it adds nothing.
list_files(tree, folder, lang) ==
    LET exts == IF lower(lang) \in DOMAIN LANGUAGE_EXTENSIONS
                THEN LANGUAGE_EXTENSIONS[lower(lang)] ELSE {}
        files == UNION { glob_ext(tree, folder, ext) : ext \in exts }
    IN  { f \in files : tuple_is_true(is_source_file(f)) }

\* run_moss.py: LANGUAGE_EXTENSIONS.get(language.lower(), [""]); the default
\* is the one extension "", which every name ends with.
list_files_old(tree, folder, lang) ==
    LET exts == IF lower(lang) \in DOMAIN LANGUAGE_EXTENSIONS
                THEN LANGUAGE_EXTENSIONS[lower(lang)] ELSE { <<>> }
        files == UNION { glob_ext(tree, folder, ext) : ext \in exts }
    IN  { f \in files : is_source_file(f) }

\* ------------------------------------------------------------ stage_moss_files
ZIP_OUTPUT == << <<"zip_output">> >>
BASE == << <<"base">> >>
SOLUTIONS == << <<"solutions">> >>

Min(a, b) == IF a < b THEN a ELSE b

\* glob.glob(f"{zip_output}/*", recursive=True): the entries of zip_output
\* whose names do not start with a dot.
glob_star(tree, folder) ==
    { n.path : n \in { c \in Children(tree, folder) : ~IsHidden(Last(c.path)) } }

\* random.choices(folders, k=n) in its place: draws with replacement.
sampled_with_replacement(folders, n) ==
    IF folders = {} THEN { <<>> } ELSE [1..n -> folders]

\* random.shuffle(folders); folders[:max_submissions]
sampled_batches(folders, n) ==
    { SubSeq(o, 1, Min(n, Len(o))) : o \in Orders(folders) }

\* The test for an empty list left out.
has_matches_unchecked(files) == TRUE

\* if not files: raise FileNotFoundError
has_matches(files) == files # {}

\* create_moss_comments: the headings of the comment string.
create_moss_comments(n, folders, base, sols) ==
    (IF base # None THEN {"Base files"} ELSE {})
    \cup (IF sols # None THEN {"Solutions"} ELSE {})
    \cup (IF n # 0 THEN {"Max submissions"} ELSE {})
    \cup (IF n # 0 /\ folders # <<>> THEN {"Submissions in this batch"} ELSE {})

\* stage_moss_files of mos_moss.py, from the call to the return or the raise.
stage_body ==
    /\ \E batch \in IF max_submissions # 0
                    THEN sampled_batches(glob_star(disk, ZIP_OUTPUT), max_submissions)
                    ELSE { <<ZIP_OUTPUT>> } :
         LET files == UNION { list_files(disk, batch[i], language) : i \in 1..Len(batch) }
             bases == IF base_files # None THEN list_files(disk, base_files, language) ELSE {}
             sols == IF solutions # None THEN list_files(disk, solutions, language) ELSE {}
             added == [NewMoss EXCEPT !.files = files]
         IN  /\ submission_folders' = batch
             /\ IF base_files # None /\ ~has_matches(bases)
                THEN /\ moss' = added
                     /\ pc_stage' = "FileNotFoundError: base files"
                ELSE IF solutions # None /\ ~has_matches(sols)
                THEN /\ moss' = [added EXCEPT !.base_files = bases]
                     /\ pc_stage' = "FileNotFoundError: online solutions"
                ELSE /\ moss' = [added EXCEPT
                                 !.files = files \cup sols,
                                 !.base_files = bases,
                                 !.comment = create_moss_comments(
                                     max_submissions, batch, base_files, solutions),
                                 !.directory_mode = 1]
                     /\ pc_stage' = "returned"
    /\ UNCHANGED <<disk, language, max_submissions, base_files, solutions>>

\* A call of stage_moss_files of mos_moss.py on its own.
stage_moss_files ==
    /\ script = "mos_moss"
    /\ pc_stage = "call"
    /\ stage_body
    /\ UNCHANGED <<varsNames, varsExtract, varsMain>>

\* stage_moss_files of run_moss.py: every file under zip_output.
stage_moss_files_old ==
    /\ script = "run_moss"
    /\ pc_stage = "call"
    /\ moss' = [NewMoss EXCEPT !.files = list_files_old(disk, ZIP_OUTPUT, language),
                               !.directory_mode = 1]
    /\ pc_stage' = "returned"
    /\ UNCHANGED <<disk, language, max_submissions, base_files, solutions, submission_folders>>
    /\ UNCHANGED <<varsNames, varsExtract, varsMain>>

\* Folders closed under parents: every folder on the way to a node is a node.
Ancestors(p) == { SubSeq(p, 1, k) : k \in 1..(Len(p) - 1) }
WithParents(nodes) ==
    nodes \cup { [path |-> a, dir |-> TRUE, size |-> 0] :
                   a \in UNION { Ancestors(n.path) : n \in nodes } }

RECURSIVE SetsUpTo(_, _)
SetsUpTo(U, k) ==
    IF k = 0 THEN { {} }
    ELSE LET S == SetsUpTo(U, k - 1) IN S \cup { s \cup {x} : s \in S, x \in U }

\* What file selection may meet under zip_output: sources, a folder named
\* java, a PDF, a jar, a header, a dot file; each a folder, an empty file or
\* a file with content; at the top, in a folder or in a dot folder.
FileNames ==
    { <<"A", ".", "java">>, <<"java">>, <<"A", ".", "pdf">>, <<"A", ".", "jar">>,
      <<"A", ".", "h">>, <<".", "A", ".", "java">> }
SelectFolders == { ZIP_OUTPUT, ZIP_OUTPUT \o << <<"src">> >>, ZIP_OUTPUT \o << <<".", "git">> >> }
SelectNodes ==
    { [path |-> Append(d, name), dir |-> k = "dir", size |-> IF k = "file" THEN 1 ELSE 0] :
        d \in SelectFolders, name \in FileNames, k \in {"dir", "empty", "file"} }
SelectDisks ==
    { WithParents(S \cup { [path |-> ZIP_OUTPUT, dir |-> TRUE, size |-> 0] }) :
        S \in { T \in SetsUpTo(SelectNodes, MaxFiles) :
                  \A x, y \in T : x.path = y.path => x = y } }

InitSelect ==
    /\ script \in {"mos_moss", "run_moss"}
    /\ disk \in SelectDisks
    /\ language \in {"java", "Java", "cpp", "python"}
    /\ max_submissions = 0 /\ base_files = None /\ solutions = None
    /\ submission_folders = <<>> /\ moss = NewMoss /\ pc_stage = "call"
    /\ original_name = FALSE /\ extracted = {} /\ pc_unzip = "idle"
    /\ student_zip = {} /\ cleaned = {} /\ fs = {} /\ pc_ext = "idle"
    /\ MainIdle

NextSelect == stage_moss_files \/ stage_moss_files_old

SpecSelect == InitSelect /\ [][NextSelect]_vars

\* What sampling may meet: submission folders s1, s2, ... and a dot folder
\* under zip_output, each absent, empty or holding a source file; a folder of
\* base files and a folder of solutions, each empty or holding a source file.
SourceFile(d) == [path |-> Append(d, <<"A", ".", "java">>), dir |-> FALSE, size |-> 1]
Folder(p) == [path |-> p, dir |-> TRUE, size |-> 0]
SubmissionFolders ==
    { Append(ZIP_OUTPUT, <<"s", ToString(i)>>) : i \in 1..MaxFolders }
    \cup { Append(ZIP_OUTPUT, <<".", "s">>) }
StageDisks ==
    UNION { { { Folder(ZIP_OUTPUT), Folder(BASE), Folder(SOLUTIONS) }
              \cup { Folder(p) : p \in present }
              \cup { SourceFile(p) : p \in filled } :
                filled \in SUBSET (present \cup { BASE, SOLUTIONS }) } :
            present \in SUBSET SubmissionFolders }

InitStage ==
    /\ script = "mos_moss"
    /\ disk \in StageDisks
    /\ language \in {"java", "python"}
    /\ max_submissions \in 0..(MaxFolders + 1)
    /\ base_files \in { None, BASE }
    /\ solutions \in { None, SOLUTIONS }
    /\ submission_folders = <<>> /\ moss = NewMoss /\ pc_stage = "call"
    /\ original_name = FALSE /\ extracted = {} /\ pc_unzip = "idle"
    /\ student_zip = {} /\ cleaned = {} /\ fs = {} /\ pc_ext = "idle"
    /\ MainIdle

NextStage == stage_moss_files

SpecStage == InitStage /\ [][NextStage]_vars

\* ---------------------------------------------------------------- send_to_moss
\* The placeholder credential of mos_moss.py.
MOSS_ID == <<"1", "2", "3", "4">>

\* Python's truth of a string or None, and its "or".
Truthy(x) == x # None /\ x # <<>>
Or(x, y) == IF Truthy(x) THEN x ELSE y

\* user_id or os.getenv("user_id") or MOSS_ID
credential(arg, env) == Or(Or(arg, env), MOSS_ID)

\* f"{report_path}/report{count}.html" and f"{report_path}/report{count}"
report_html(count) == <<"report", ToString(count), ".html">>
report_dir(count) == <<"report", ToString(count)>>

\* count left at its default, count=1.
batch_count_default(b) == 1

\* The count argument __main__ passes for batch b: count=n.
batch_count(b) == b

Event(op, b, target) == [op |-> op, batch |-> b, target |-> target]

\* ------------------------------------------------------------------- __main__
\* The loop of __main__ after batch n: range(1, opt.repeat + 1).
next_batch ==
    /\ n_batch' = n_batch + 1
    /\ pc' = IF n_batch + 1 <= repeat THEN "stage" ELSE "exit"
    /\ failed' = failed

\* The error caught around the body of the loop, the loop going on.
caught_and_continued ==
    /\ failed' = n_batch
    /\ n_batch' = n_batch + 1
    /\ pc' = IF n_batch + 1 <= repeat THEN "stage" ELSE "exit"

\* An error nothing catches ends the process.
uncaught ==
    /\ pc' = "aborted"
    /\ failed' = n_batch
    /\ n_batch' = n_batch

\* unzip_canvas_submission from __main__: it returns, or an error of the
\* archive (a member that is no archive, a clash on disk) is raised. The disk
\* is the one extraction leaves.
main_unzip ==
    /\ pc = "unzip"
    /\ \/ /\ log' = Append(log, Event("unzip", 0, <<>>))
          /\ n_batch' = 1
          /\ pc' = IF 1 <= repeat THEN "stage" ELSE "exit"
          /\ failed' = failed
       \/ /\ uncaught
          /\ log' = log
    /\ UNCHANGED <<repeat, no_report, user_id, env_user_id>>
    /\ UNCHANGED <<varsNames, varsExtract, varsStage>>

\* stage_moss_files from __main__ for batch n.
main_stage ==
    /\ pc = "stage"
    /\ stage_body
    /\ IF pc_stage' = "returned"
       THEN /\ log' = Append(log, Event("stage", n_batch, <<>>))
            /\ pc' = "send"
            /\ UNCHANGED <<n_batch, failed>>
       ELSE /\ uncaught
            /\ log' = log
    /\ UNCHANGED <<repeat, no_report, user_id, env_user_id>>
    /\ UNCHANGED <<varsNames, varsExtract>>

\* send_to_moss, to the return of moss.send: the credential, the check for a
\* missing one, the upload (which the service or the network may fail).
send_upload ==
    /\ pc = "send"
    /\ moss' = [moss EXCEPT !.user_id = credential(user_id, env_user_id)]
    /\ IF ~Truthy(moss'.user_id)
       THEN /\ uncaught
            /\ log' = Append(log, Event("ValueError", n_batch, <<>>))
       ELSE \/ /\ log' = Append(log, Event("upload", n_batch, moss'.user_id))
               /\ pc' = "save"
               /\ UNCHANGED <<n_batch, failed>>
            \/ /\ uncaught
               /\ log' = log
    /\ UNCHANGED <<repeat, no_report, user_id, env_user_id>>
    /\ UNCHANGED <<disk, language, max_submissions, base_files, solutions,
                   submission_folders, pc_stage>>
    /\ UNCHANGED <<varsNames, varsExtract>>

\* send_to_moss, the report page: mkdir report_path, saveWebPage; then the
\* return when no_report is set.
send_save ==
    /\ pc = "save"
    /\ \/ /\ log' = Append(log, Event("html", n_batch, report_html(batch_count(n_batch))))
          /\ IF no_report
             THEN next_batch
             ELSE /\ pc' = "download"
                  /\ UNCHANGED <<n_batch, failed>>
       \/ /\ uncaught
          /\ log' = log
    /\ UNCHANGED <<repeat, no_report, user_id, env_user_id>>
    /\ UNCHANGED <<varsNames, varsExtract, varsStage>>

\* send_to_moss, the report: mkdir report{count}, download_report.
send_download ==
    /\ pc = "download"
    /\ \/ /\ log' = log \o << Event("mkdir", n_batch, report_dir(batch_count(n_batch))),
                             Event("download", n_batch, report_dir(batch_count(n_batch))) >>
          /\ next_batch
       \/ /\ uncaught
          /\ log' = Append(log, Event("mkdir", n_batch, report_dir(batch_count(n_batch))))
    /\ UNCHANGED <<repeat, no_report, user_id, env_user_id>>
    /\ UNCHANGED <<varsNames, varsExtract, varsStage>>

\* The disks a run stages from: both submission folders filled, the dot
\* folder absent, the solutions folder filled, the base folder filled or not.
MainDisks ==
    { d \in StageDisks :
        /\ \A i \in 1..MaxFolders :
             SourceFile(Append(ZIP_OUTPUT, <<"s", ToString(i)>>)) \in d
        /\ \A x \in d : ~IsHidden(Last(x.path))
        /\ SourceFile(SOLUTIONS) \in d }

Init ==
    /\ pc = "unzip" /\ n_batch = 0 /\ log = <<>> /\ failed = -1
    /\ repeat \in 0..MaxRepeat
    /\ no_report \in BOOLEAN
    /\ user_id \in { None, <<"u">> }
    /\ env_user_id \in { None, <<>>, <<"e">> }
    /\ script = "mos_moss"
    /\ disk \in MainDisks
    /\ language = "java"
    /\ max_submissions \in {0, 1}
    /\ base_files \in { None, BASE }
    /\ solutions = None
    /\ submission_folders = <<>> /\ moss = NewMoss /\ pc_stage = "call"
    /\ original_name = FALSE /\ extracted = {} /\ pc_unzip = "idle"
    /\ student_zip = {} /\ cleaned = {} /\ fs = {} /\ pc_ext = "idle"

Next == main_unzip \/ main_stage \/ send_upload \/ send_save \/ send_download

Spec == Init /\ [][Next]_vars

\* ===================================================================== claims

\* C1: the files selected for upload (list_files of mos_moss.py, the addFile
\* loop of stage_moss_files of run_moss.py) are regular files with content
\* whose names end neither in "pdf" nor in "jar".
C1_SelectedFilesAreSources ==
    pc_stage = "returned" =>
        \A f \in moss.files :
            /\ ~f.dir
            /\ f.size > 0
            /\ ~EndsWith(Last(f.path), <<"pdf">>)
            /\ ~EndsWith(Last(f.path), <<"jar">>)

\* The same of run_moss.py alone, whose condition is no tuple.
C1_HoldsInRunMoss == script = "run_moss" => C1_SelectedFilesAreSources

\* C2: every member is extracted; into the folder named by the captured group
\* (1, or 2 with original_name) when its name matches the regular expression,
\* into the folder named by its raw name when it does not; no error comes of
\* a failed match.
C2_FolderIsGroupOrRawName ==
    /\ pc_unzip # "TypeError"
    /\ \A e \in extracted :
        LET res == re_match_new(e.member)
        IN  IF res = None THEN e.folder = e.member
            ELSE e.folder = (IF original_name THEN res[2] ELSE res[1])

\* The same of mos_moss.py alone, which catches the TypeError.
C2_HoldsInMosMoss == script = "mos_moss" => C2_FolderIsGroupOrRawName

\* C3 as stated: no two distinct members are extracted into the same folder.
C3_OneArchivePerFolder ==
    \A e1, e2 \in extracted : e1.folder = e2.folder => e1.member = e2.member

\* C3 as amended: every member is extracted into one folder only, and two
\* members of different names that both fail to match the regular expression
\* derive different folder names (members that match may share one).
C3_UnmatchedNamesKeepApart ==
    /\ \A e1, e2 \in extracted : e1.member = e2.member => e1.folder = e2.folder
    /\ \A e1, e2 \in extracted :
        (/\ e1.member # e2.member
         /\ re_match_new(e1.member) = None
         /\ re_match_new(e2.member) = None) => e1.folder # e2.folder

\* The loop ended with two members extracted whose names do not match, each
\* into the folder of its raw name.
C3_Witness ==
    /\ script = "mos_moss"
    /\ pc_unzip = "done"
    /\ \E e1, e2 \in extracted :
        /\ e1.member # e2.member
        /\ re_match_new(e1.member) = None
        /\ re_match_new(e2.member) = None
        /\ e1.folder = e1.member
        /\ e2.folder = e2.member

\* C4: when the folder holds exactly one entry after cleanup_files,
\* flatten_folder ends without error and leaves what was inside that entry
\* at the top of the folder, the entry itself gone.
C4_SingleEntryIsFlattened ==
    (/\ pc_ext \in {"done", "flatten_folder: NotADirectoryError", "flatten_folder: shutil.Error"}
     /\ Cardinality(Children(cleaned, <<>>)) = 1)
    => /\ pc_ext = "done"
       /\ fs = { [path |-> Tail(x.path), dir |-> x.dir] :
                   x \in { y \in cleaned : Len(y.path) >= 2 } }

\* C5: once the member is processed no folder named __MACOSX is left at any
\* depth of the extracted folder.
C5_NoMacosxFolderLeft ==
    pc_ext = "done" => \A x \in fs : ~(x.dir /\ Last(x.path) = MACOSX)

\* C6 as stated: with max_submissions = n > 0 and k entries under zip_output
\* the batch has min(n, k) folders, each an entry of zip_output, none twice.
C6_BatchOfAllEntries ==
    (pc_stage # "call" /\ max_submissions > 0) =>
        LET entries == { x.path : x \in Children(disk, ZIP_OUTPUT) }
            batch == submission_folders
        IN  /\ Len(batch) = Min(max_submissions, Cardinality(entries))
            /\ \A i \in 1..Len(batch) : batch[i] \in entries
            /\ \A i, j \in 1..Len(batch) : batch[i] = batch[j] => i = j

\* C6 as amended: k counts the entries of zip_output whose names do not start
\* with a dot; the batch has min(n, k) of them, none twice.
C6_BatchOfVisibleEntries ==
    (pc_stage # "call" /\ max_submissions > 0) =>
        LET entries == { x.path : x \in { y \in disk :
                            /\ Len(y.path) = 2
                            /\ y.path[1] = ZIP_OUTPUT[1]
                            /\ y.path[2][1] # "." } }
            batch == submission_folders
        IN  /\ Len(batch) = Min(max_submissions, Cardinality(entries))
            /\ \A i \in 1..Len(batch) : batch[i] \in entries
            /\ \A i, j \in 1..Len(batch) : batch[i] = batch[j] => i = j

\* More folders were asked for than zip_output shows, next to a dot folder:
\* the batch is the two folders shown.
C6_Witness ==
    /\ pc_stage = "returned"
    /\ max_submissions > 2
    /\ Len(submission_folders) = 2
    /\ Cardinality(Children(disk, ZIP_OUTPUT)) = 3

\* C7: without a user_id argument and without the environment variable
\* send_to_moss raises "No MOSS ID found" and uploads nothing; with either,
\* the upload uses the argument, else the environment variable.
C7_MissingCredentialRaises ==
    /\ (~Truthy(user_id) /\ ~Truthy(env_user_id)) =>
          /\ \A i \in 1..Len(log) : log[i].op # "upload"
          /\ pc \notin {"save", "download"}
    /\ (Truthy(user_id) \/ Truthy(env_user_id)) =>
          \A i \in 1..Len(log) :
              log[i].op = "upload" =>
                  log[i].target = (IF Truthy(user_id) THEN user_id ELSE env_user_id)

Phase(op) ==
    CASE op = "unzip" -> 0
      [] op = "stage" -> 1
      [] op = "upload" -> 2
      [] op = "ValueError" -> 2
      [] op = "html" -> 3
      [] op = "mkdir" -> 4
      [] op = "download" -> 5

Ops(b) == { log[i].op : i \in { j \in 1..Len(log) : log[j].batch = b } }

\* C9: extraction comes first; batches run in the order 1..repeat, each
\* staged, uploaded, its page saved as report{n}.html and (unless no_report)
\* its report downloaded into report{n}/, before the next is staged; with
\* no_report no report{n}/ is made; no two batches write the same file or
\* folder.
C9_BatchesInOrder ==
    /\ \A i, j \in 1..Len(log) :
          i < j => \/ log[i].batch < log[j].batch
                   \/ log[i].batch = log[j].batch /\ Phase(log[i].op) < Phase(log[j].op)
    /\ \A i \in 1..Len(log) :
          LET b == log[i].batch
          IN  /\ b \in 0..repeat
              /\ b >= 1 => "unzip" \in Ops(0)
              /\ b >= 2 => /\ {"stage", "upload", "html"} \subseteq Ops(b - 1)
                           /\ no_report \/ "download" \in Ops(b - 1)
              /\ log[i].op \in {"upload", "html"} => "stage" \in Ops(b)
              /\ log[i].op = "html" => "upload" \in Ops(b)
              /\ log[i].op = "mkdir" => "html" \in Ops(b)
              /\ log[i].op \in {"mkdir", "download"} => ~no_report
              /\ log[i].op = "html" => log[i].target = <<"report", ToString(b), ".html">>
              /\ log[i].op \in {"mkdir", "download"} => log[i].target = <<"report", ToString(b)>>
    /\ \A i, j \in 1..Len(log) :
          (/\ log[i].op \in {"html", "mkdir", "download"}
           /\ log[j].op \in {"html", "mkdir", "download"}
           /\ log[i].target = log[j].target) => log[i].batch = log[j].batch
    /\ pc = "exit" =>
          \A b \in 1..repeat :
              /\ {"stage", "upload", "html"} \subseteq Ops(b)
              /\ no_report \/ {"mkdir", "download"} \subseteq Ops(b)

\* A run of two batches or more ended, every report downloaded.
C9_Witness ==
    /\ pc = "exit"
    /\ repeat >= 2
    /\ ~no_report
    /\ Len(log) = 1 + 5 * repeat

\* C10, the state: once an error ended batch k the process is over, and
\* nothing of a batch after k was staged, uploaded or written.
C10_NothingAfterTheError ==
    failed # -1 =>
        /\ pc = "aborted"
        /\ \A i \in 1..Len(log) : log[i].batch <= failed

\* C10, the steps: nothing happens after the error, and no step takes back
\* what was written before it.
C10_NoStepAfterTheError ==
    /\ failed # -1 => UNCHANGED <<pc, n_batch, log, failed>>
    /\ Len(log') >= Len(log)
    /\ SubSeq(log', 1, Len(log)) = log

\* C10: errors are not recovered: the batch that fails ends the run, no later
\* batch is staged, uploaded or reported, and the output of the batches
\* before it stays as written.
C10_ErrorsEndTheRun == [](C10_NothingAfterTheError) /\ [][C10_NoStepAfterTheError]_vars

\* The second batch failed after the first was reported.
C10_Witness ==
    /\ failed >= 2
    /\ pc = "aborted"
    /\ "html" \in Ops(1)
    /\ "upload" \in Ops(failed)

====
